---- MODULE Spec2Model ----
(***************************************************************************)
(* Model of the speech-transcription session manager of voice-notes-widget *)
(* (the useSpeechRecognition hooks and the App effect that feeds committed *)
(* segments into the current note).                                        *)
(*                                                                         *)
(* Strings are sequences of one-character strings, so that trimming and    *)
(* concatenation are computed as the JavaScript code computes them.        *)
(* Time is in milliseconds; confidence is in percent.                      *)
(***************************************************************************)
EXTENDS Integers, Sequences, FiniteSets, TLC

\* ------------------------------------------------------------------------
\* Bounds of the model
\* ------------------------------------------------------------------------
MaxEvents == 2
MaxEventsC == 1
MaxControlOps == 3
MaxTicks == 2
MaxTicksC == 1
MaxNotes == 2
MaxErrorEvents == 2
MaxStale == 1
MaxEventsR == 1
MaxErrorEventsR == 5
MaxControlOpsR == 1
MaxTicksR == 2
MaxBuffer == 2
MaxEventsN == 2
MaxControlOpsN == 3
MaxTicksN == 1

\* ------------------------------------------------------------------------
\* Program constants
\* ------------------------------------------------------------------------
TickMs == 31000
StaleIntervalMs == 30000
ForceRestartIntervalMs == 240000
HighWatermarkAutoPush == 200
LowWatermark == 50
PushTimeoutMs == 10000
HighWatermarkRobust == 150
maxConsecutiveErrors == 5
InitialRestartDelay == 1000
MaxRestartDelay == 10000
DefaultConfidence == 80

\* ------------------------------------------------------------------------
\* Strings
\* ------------------------------------------------------------------------
Empty == <<>>
Space == <<" ">>
Rep(c, n) == [i \in 1..n |-> c]

SpB == <<" ", "b">>
HelloWor == <<"h","e","l","l","o"," ","w","o","r">>
HelloWorld == <<"h","e","l","l","o"," ","w","o","r","l","d">>
P60 == Rep("x", 60)
P210 == Rep("y", 210)
P210b == P210 \o <<"z">>

IsWs(c) == c = " "

RECURSIVE TrimLeft(_)
TrimLeft(s) ==
  IF s = <<>> THEN s
  ELSE IF IsWs(Head(s)) THEN TrimLeft(Tail(s)) ELSE s

RECURSIVE TrimRight(_)
TrimRight(s) ==
  IF s = <<>> THEN s
  ELSE IF IsWs(s[Len(s)]) THEN TrimRight(SubSeq(s, 1, Len(s) - 1)) ELSE s

\* String.prototype.trim
Trim(s) == TrimRight(TrimLeft(s))

IsPrefix(s, t) == Len(s) =< Len(t) /\ SubSeq(t, 1, Len(s)) = s

\* ------------------------------------------------------------------------
\* Recognition results: one SpeechRecognitionResult of an onresult event
\* ------------------------------------------------------------------------
Fin(t, c) == [isFinal |-> TRUE, transcript |-> t, confidence |-> c]
Par(t) == [isFinal |-> FALSE, transcript |-> t, confidence |-> 0]

\* The lists event.results[event.resultIndex ..] the engine delivers.
\* Final results precede interim ones in a result list.
ResultLists ==
  { <<Fin(SpB, 90)>>, <<Fin(HelloWorld, 0)>>,
    <<Par(HelloWor)>>, <<Par(P60)>>, <<Par(P210)>>, <<Par(P210b)>>,
    <<Fin(SpB, 90), Fin(SpB, 90)>> }

\* The for loop of onresult: finalSegment += transcriptPart + ' '
RECURSIVE FinalSegmentOf(_)
FinalSegmentOf(rs) ==
  IF rs = <<>> THEN Empty
  ELSE (IF Head(rs).isFinal THEN Head(rs).transcript \o Space ELSE Empty)
       \o FinalSegmentOf(Tail(rs))

\* The for loop of onresult: newInterimTranscript += transcriptPart
RECURSIVE InterimOf(_)
InterimOf(rs) ==
  IF rs = <<>> THEN Empty
  ELSE (IF Head(rs).isFinal THEN Empty ELSE Head(rs).transcript)
       \o InterimOf(Tail(rs))

\* The trimmed non-blank texts of the final results, in order
RECURSIVE FinalPartsOf(_)
FinalPartsOf(rs) ==
  IF rs = <<>> THEN <<>>
  ELSE (IF Head(rs).isFinal /\ Trim(Head(rs).transcript) # Empty
          THEN <<Trim(Head(rs).transcript)>> ELSE <<>>)
       \o FinalPartsOf(Tail(rs))

\* The result lists delivered when the connection is in focus
ResultListsC == { <<Fin(HelloWorld, 0)>>, <<Par(HelloWor)>> }

HasFinal(rs) == \E i \in 1..Len(rs) : rs[i].isFinal

\* The confidence of the last final result (setConfidence is called per
\* final result, the last call wins); c0 when there is none.
RECURSIVE LastConfidence(_, _)
LastConfidence(rs, c0) ==
  IF rs = <<>> THEN c0
  ELSE LastConfidence(Tail(rs), IF Head(rs).isFinal THEN Head(rs).confidence ELSE c0)

\* ------------------------------------------------------------------------
\* State
\* ------------------------------------------------------------------------
VARIABLES
  variant,              \* which useSpeechRecognition module the build resolves
  now,                  \* Date.now()
  isListening,          \* useState(false)
  error,                \* useState(null)
  transcript,           \* useState('')
  interimTranscript,    \* useState('')
  latestFinalSegment,   \* useState('')
  confidence,           \* useState(0)
  finalTranscriptRef,   \* useRef('')
  autoPushCallbackRef,  \* useRef(null): TRUE when a callback is registered
  lastPushTimeRef,      \* useRef(Date.now())
  pushEffectDeps,       \* [interimTranscript, isListening] of the last run of the auto-push effect
  running,              \* recognitionRef.current: "no", "starting", "yes" or "ending" (end event due)
  recL,                 \* the isListening value captured by the handlers of recognitionRef.current
  initL,                \* the isListening value the effects last ran with
  isRestartingRef,      \* useRef(false)
  consecutiveErrorsRef, \* useRef(0)
  restartDelayRef,      \* useRef(1000)
  restartTimeoutRef,    \* the pending timer of restartRecognition, or NoTimer
  delayedTimers,        \* pending setTimeout callbacks armed by onerror and onend
  lastResultTimeRef,    \* useRef(Date.now())
  forceRestartIntervalRef, \* the 4-minute interval: <<>> when none is set, <<t>> when it next fires at t
  ticksLeft,            \* number of clock steps the model still takes
  oldEvents,            \* events still due from recognition instances that were replaced
  sock,                 \* socketRef.current: "none", "connecting", "open", "failed", "closed"
  staleSocks,           \* sockets dropped from socketRef whose close event is still due
  mic,                  \* micStreamRef.current holds a live microphone stream and audio graph
  startPc,              \* position of the asynchronous startListening call of the remote hook
  isRecording,          \* App: useState(false)
  isPaused,             \* RecordingControls: useState(false)
  recordingStartTime,   \* App: useState(null): <<>> for null, <<t>> for the time t
  elapsedTime,          \* App: useState(0)
  notes,                \* useNotes: useState([])
  currentNote,          \* useNotes: useState(null)
  nextId,               \* the id the next created note gets
  lastProcessedSegment, \* App: useState('')
  eventsLeft,           \* number of upstream events the model still delivers
  errorsLeft,           \* number of upstream failures the model still injects
  opsLeft,              \* number of recording-control clicks the model still makes
  utterance,            \* index of the engine's current (not yet final) result
  pushed,               \* the calls made to the auto-push callback, in order
  emitted,              \* log of the segments committed or pushed since the last reset
  finalsSinceReset,     \* texts of the Final results received since the last reset
  appended,             \* the calls appendToNote(id, text) that changed a note, in order
  finalsForNote,        \* the segments published while a note was current
  language,             \* useState('en-US') of the local-engine hooks
  recLang,              \* recognition.lang of recognitionRef.current
  initLang,             \* the language value the effects last ran with
  closureLang,          \* the language captured by restartRecognition and its initializeRecognition
  languageTimer,        \* the pending 100 ms timer of changeLanguage: <<>> or <<its captured values>>
  pcmIn,                \* the input buffer of the last onaudioprocess event
  pcmOut,               \* the Int16Array built from it
  lastOp                \* the last operation and its input

tvars == <<transcript, interimTranscript, latestFinalSegment, confidence, finalTranscriptRef>>
pvars == <<autoPushCallbackRef, lastPushTimeRef, pushEffectDeps>>
localvars == <<running, recL, initL, isRestartingRef, consecutiveErrorsRef, restartDelayRef,
               restartTimeoutRef, delayedTimers, lastResultTimeRef, forceRestartIntervalRef,
               oldEvents>>
remotevars == <<sock, staleSocks, mic, startPc>>
connvars == <<isListening, error, localvars, remotevars>>
recvars == <<isRecording, isPaused, recordingStartTime, elapsedTime>>
appvars == <<notes, currentNote, nextId, lastProcessedSegment, recvars>>
counters == <<eventsLeft, errorsLeft, opsLeft>>
ghostvars == <<utterance, pushed, emitted, finalsSinceReset, appended, finalsForNote>>
langvars == <<language, recLang, initLang, closureLang, languageTimer>>
audiovars == <<pcmIn, pcmOut>>
vars == <<variant, now, ticksLeft, tvars, pvars, connvars, appvars, counters, ghostvars,
          langvars, audiovars, lastOp>>

Variants == {"basic", "autopush", "robust", "remote"}
Local == {"basic", "autopush", "robust"}
NoError == "null"
DefaultLanguage == "en-US"

Op(name, arg) == [op |-> name, arg |-> arg]

\* ------------------------------------------------------------------------
\* onresult of the three local-engine hooks, as functions of the result list
\* ------------------------------------------------------------------------

\* onresult with the accumulator assigned instead of extended
BasicOnResultReplace(rs, st) ==
  LET finalSegment == FinalSegmentOf(rs)
      ref == IF finalSegment # Empty THEN finalSegment ELSE st.ref
  IN [ latest |-> IF finalSegment # Empty THEN Trim(finalSegment) ELSE st.latest,
       ref |-> ref,
       transcript |-> IF finalSegment # Empty THEN Trim(ref) ELSE st.transcript,
       interim |-> InterimOf(rs),
       confidence |-> LastConfidence(rs, st.confidence),
       calls |-> <<>> ]

\* src/hooks/useSpeechRecognition.js and the auto-push variant: the raw
\* finalSegment is appended to the accumulator.
BasicOnResult(rs, st) ==
  LET finalSegment == FinalSegmentOf(rs)
      ref == IF finalSegment # Empty THEN st.ref \o finalSegment ELSE st.ref
  IN [ latest |-> IF finalSegment # Empty THEN Trim(finalSegment) ELSE st.latest,
       ref |-> ref,
       transcript |-> IF finalSegment # Empty THEN Trim(ref) ELSE st.transcript,
       interim |-> InterimOf(rs),
       confidence |-> LastConfidence(rs, st.confidence),
       calls |-> <<>> ]

\* confidence || 0.8
OrDefault(c) == IF c = 0 THEN DefaultConfidence ELSE c

\* The robust hook: the trimmed segment plus one space is appended, final
\* parts and long interim text go to the auto-push callback.
RobustOnResult(rs, st) ==
  LET finalSegment == FinalSegmentOf(rs)
      cleanSegment == Trim(finalSegment)
      newInterim == InterimOf(rs)
      ref == IF cleanSegment # Empty THEN st.ref \o cleanSegment \o Space ELSE st.ref
      push == Len(newInterim) > HighWatermarkRobust /\ st.callback
  IN [ latest |-> IF cleanSegment # Empty THEN cleanSegment ELSE st.latest,
       ref |-> ref,
       transcript |-> IF cleanSegment # Empty THEN Trim(ref) ELSE st.transcript,
       interim |-> IF push THEN Empty ELSE newInterim,
       confidence |-> IF HasFinal(rs) THEN OrDefault(LastConfidence(rs, 0)) ELSE st.confidence,
       calls |-> (IF st.callback THEN FinalPartsOf(rs) ELSE <<>>)
                 \o (IF push THEN <<newInterim>> ELSE <<>>) ]

TState == [ latest |-> latestFinalSegment, ref |-> finalTranscriptRef,
            transcript |-> transcript, interim |-> interimTranscript,
            confidence |-> confidence, callback |-> autoPushCallbackRef ]

\* currentNote = null.  A note is its id, content, wordCount, isRecording,
\* metadata.startTime (<<>> for null, <<t>> for the time t) and duration
NoNote == [id |-> 0, content |-> Empty, wordCount |-> 0, isRecording |-> FALSE,
           startTime |-> <<>>, duration |-> 0]
NoTimer == [L |-> FALSE, delay |-> 0]

Constructed ==
  /\ variant \in Variants
  /\ now = 0
  /\ isListening = FALSE
  /\ error = NoError
  /\ transcript = Empty
  /\ interimTranscript = Empty
  /\ latestFinalSegment = Empty
  /\ confidence = 0
  /\ finalTranscriptRef = Empty
  /\ autoPushCallbackRef = FALSE
  /\ lastPushTimeRef = 0
  /\ pushEffectDeps = <<Empty, FALSE>>
  /\ running = "no"
  /\ recL = FALSE
  /\ initL = FALSE
  /\ isRestartingRef = FALSE
  /\ consecutiveErrorsRef = 0
  /\ restartDelayRef = InitialRestartDelay
  /\ restartTimeoutRef = NoTimer
  /\ delayedTimers = {}
  /\ lastResultTimeRef = 0
  /\ forceRestartIntervalRef = <<>>
  /\ oldEvents = {}
  /\ sock = "none"
  /\ staleSocks = 0
  /\ mic = FALSE
  /\ startPc = "idle"
  /\ isRecording = FALSE
  /\ isPaused = FALSE
  /\ recordingStartTime = <<>>
  /\ elapsedTime = 0
  /\ notes = <<>>
  /\ currentNote = NoNote
  /\ nextId = 1
  /\ lastProcessedSegment = Empty
  /\ utterance = 0
  /\ pushed = <<>>
  /\ emitted = <<>>
  /\ finalsSinceReset = <<>>
  /\ appended = <<>>
  /\ finalsForNote = <<>>
  /\ language = DefaultLanguage
  /\ recLang = DefaultLanguage
  /\ initLang = DefaultLanguage
  /\ closureLang = DefaultLanguage
  /\ languageTimer = <<>>
  /\ pcmIn = <<>>
  /\ pcmOut = <<>>
  /\ lastOp = Op("init", <<>>)

\* The state after construction, with the transcript in focus: no upstream
\* failures are injected
Init ==
  /\ Constructed
  /\ eventsLeft = MaxEvents
  /\ errorsLeft = 0
  /\ opsLeft = MaxControlOps
  /\ ticksLeft = MaxTicks

\* The state after construction, with the connection in focus
InitC ==
  /\ Constructed
  /\ eventsLeft = MaxEventsC
  /\ errorsLeft = MaxErrorEvents
  /\ opsLeft = MaxControlOps
  /\ ticksLeft = MaxTicksC

\* The state after construction of the robust hook, with its restart logic
\* in focus
InitR ==
  /\ Constructed
  /\ variant = "robust"
  /\ eventsLeft = MaxEventsR
  /\ errorsLeft = MaxErrorEventsR
  /\ opsLeft = MaxControlOpsR
  /\ ticksLeft = MaxTicksR

\* ------------------------------------------------------------------------
\* Ghost bookkeeping of an onresult event
\* ------------------------------------------------------------------------
RECURSIVE RawFinalsOf(_)
RawFinalsOf(rs) ==
  IF rs = <<>> THEN <<>>
  ELSE (IF Head(rs).isFinal THEN <<Head(rs).transcript>> ELSE <<>>) \o RawFinalsOf(Tail(rs))

Entry(u, t, k) == [utt |-> u, text |-> t, kind |-> k]

\* One log entry per final result, tagged with the index of its result
FinalEntries(texts, u) == [i \in 1..Len(texts) |-> Entry(u + i - 1, texts[i], "final")]

\* ------------------------------------------------------------------------
\* Effects.  React runs the effects of a render before the render of a later
\* update; the model takes them before the next event is handled.
\* ------------------------------------------------------------------------

\* The condition of the App effect that appends the latest final segment
SegmentPending ==
  /\ latestFinalSegment # Empty
  /\ latestFinalSegment # lastProcessedSegment
  /\ currentNote # NoNote

\* isListening or language changed since the effects of the robust hook
\* last ran: initializeRecognition is a new function
RenderPending == variant = "robust" /\ (initL # isListening \/ initLang # language)

\* language changed since the effect of the basic or auto-push hook last ran
LanguagePending == variant \in {"basic", "autopush"} /\ initLang # language

\* A dependency of the auto-push effect changed since it last ran
PushPending == variant = "autopush" /\ pushEffectDeps # <<interimTranscript, isListening>>

Settled == ~SegmentPending /\ ~RenderPending /\ ~PushPending /\ ~LanguagePending

\* setAutoPushCallback: the host registers its callback, before it starts a
\* recording
SetAutoPushCallback ==
  /\ Settled
  /\ variant \in {"autopush", "robust"}
  /\ ~autoPushCallbackRef
  /\ ~isRecording
  /\ autoPushCallbackRef' = TRUE
  /\ lastOp' = Op("other", <<>>)
  /\ UNCHANGED <<variant, langvars, audiovars, now, ticksLeft, tvars, lastPushTimeRef, pushEffectDeps, connvars, appvars, counters, ghostvars>>

\* Nothing is due within the next clock step: every armed timer has a delay
\* below TickMs, and the engine delivers the events it owes (start, end)
\* well within it.
Quiet ==
  /\ delayedTimers = {}
  /\ restartTimeoutRef = NoTimer
  /\ oldEvents = {}
  /\ languageTimer = <<>>
  /\ running \in {"no", "yes"}
  /\ IF forceRestartIntervalRef = <<>> THEN TRUE ELSE now < forceRestartIntervalRef[1]

\* The clock advances by d; the App's one-second interval refreshes
\* elapsedTime while recording.
Advance(d) ==
  /\ Settled
  /\ Quiet
  /\ ticksLeft > 0
  /\ ticksLeft' = ticksLeft - 1
  /\ now' = now + d
  /\ elapsedTime' = IF isRecording /\ recordingStartTime # <<>>
                       THEN (now' - recordingStartTime[1]) \div 1000 ELSE elapsedTime
  /\ lastOp' = Op("other", <<>>)
  /\ UNCHANGED <<variant, langvars, audiovars, tvars, pvars, connvars, notes, currentNote, nextId,
                 lastProcessedSegment, isRecording, isPaused, recordingStartTime, counters, ghostvars>>

\* A clock step long enough for the stall monitor
Tick == Advance(TickMs)

\* A clock step as long as the period of the preventive-restart interval
LongTick == Advance(ForceRestartIntervalMs)

\* recognition.onresult of the three local-engine hooks
OnResult(rs) ==
  /\ Settled
  /\ variant \in Local
  /\ running = "yes"
  /\ eventsLeft > 0
  /\ LET r == IF variant = "robust" THEN RobustOnResult(rs, TState)
              ELSE BasicOnResult(rs, TState)
         raws == RawFinalsOf(rs)
         seg == Trim(FinalSegmentOf(rs))
     IN /\ latestFinalSegment' = r.latest
        /\ finalTranscriptRef' = r.ref
        /\ transcript' = r.transcript
        /\ interimTranscript' = r.interim
        /\ confidence' = r.confidence
        /\ pushed' = pushed \o r.calls
        /\ utterance' = utterance + Len(raws)
        /\ finalsSinceReset' = finalsSinceReset \o raws
        /\ finalsForNote' = IF seg # Empty /\ currentNote # NoNote
                              THEN Append(finalsForNote, seg) ELSE finalsForNote
        /\ emitted' = emitted \o FinalEntries(raws, utterance)
                      \o (IF Len(InterimOf(rs)) > HighWatermarkRobust /\ variant = "robust"
                             /\ autoPushCallbackRef
                            THEN <<Entry(utterance + Len(raws), InterimOf(rs), "flush")>>
                            ELSE <<>>)
  /\ lastResultTimeRef' = IF variant = "robust" THEN now ELSE lastResultTimeRef
  /\ eventsLeft' = eventsLeft - 1
  /\ UNCHANGED <<errorsLeft, opsLeft>>
  /\ lastOp' = Op("result", rs)
  /\ UNCHANGED <<variant, langvars, audiovars, now, ticksLeft, pvars, isListening, error, running, recL, initL,
                 isRestartingRef, consecutiveErrorsRef, restartDelayRef, restartTimeoutRef,
                 delayedTimers, forceRestartIntervalRef, oldEvents, remotevars, appvars, appended>>

\* ------------------------------------------------------------------------
\* The local-engine controllers
\* ------------------------------------------------------------------------
Min(a, b) == IF a < b THEN a ELSE b
Timer(L, d) == [L |-> L, delay |-> d]
Started == {"starting", "yes"}
ErrorTypes == {"no-speech", "audio-capture", "not-allowed", "network",
               "service-not-allowed", "language-not-supported", "aborted"}

\* The error types the robust hook answers with a retry
TransientErrorTypes == {"no-speech", "network", "aborted"}

robustrefs == <<recL, initL, isRestartingRef, consecutiveErrorsRef, restartDelayRef,
                restartTimeoutRef, delayedTimers, lastResultTimeRef, forceRestartIntervalRef,
               oldEvents>>

\* startListening of src/hooks/useSpeechRecognition.js and of the auto-push
\* variant; recognition.start() throws when the instance has not ended yet.
BasicStartListening ==
  /\ IF ~isListening
       THEN IF running = "no"
              THEN isListening' = TRUE /\ error' = NoError /\ running' = "starting"
              ELSE /\ isListening' = FALSE
                   /\ error' = "Failed to start speech recognition"
                   /\ running' = running
       ELSE UNCHANGED <<isListening, error, running>>
  /\ UNCHANGED <<robustrefs, remotevars>>

\* stopListening of the same two hooks
BasicStopListening ==
  /\ IF isListening
       THEN /\ isListening' = FALSE
            /\ running' = IF running \in Started THEN "ending" ELSE running
       ELSE UNCHANGED <<isListening, running>>
  /\ UNCHANGED <<error, robustrefs, remotevars>>

\* startListening of the robust hook
RobustStartListening ==
  /\ IF ~isListening
       THEN /\ consecutiveErrorsRef' = 0
            /\ restartDelayRef' = InitialRestartDelay
            /\ IF running = "no"
                 THEN isListening' = TRUE /\ error' = NoError /\ running' = "starting"
                 ELSE /\ isListening' = FALSE
                      /\ error' = "Failed to start speech recognition"
                      /\ running' = running
       ELSE UNCHANGED <<isListening, error, running, consecutiveErrorsRef, restartDelayRef>>
  /\ UNCHANGED <<recL, initL, isRestartingRef, restartTimeoutRef, delayedTimers,
                 lastResultTimeRef, forceRestartIntervalRef, oldEvents, remotevars>>

\* stopListening of the robust hook
RobustStopListening ==
  /\ isListening' = FALSE
  /\ isRestartingRef' = FALSE
  /\ restartTimeoutRef' = NoTimer
  /\ forceRestartIntervalRef' = <<>>
  /\ running' = IF running \in Started THEN "ending" ELSE running
  /\ UNCHANGED <<error, recL, initL, consecutiveErrorsRef, restartDelayRef, delayedTimers,
                 lastResultTimeRef, oldEvents, remotevars>>

\* restartRecognition aborting the instance without arming its timer
RestartRecognitionAbortOnly(L) ==
  IF isRestartingRef \/ ~L
    THEN UNCHANGED <<isRestartingRef, running, restartTimeoutRef>>
    ELSE /\ isRestartingRef' = TRUE
         /\ running' = IF running \in Started THEN "aborted" ELSE running
         /\ UNCHANGED restartTimeoutRef

\* restartRecognition as created in a render where isListening = L
RestartRecognition(L) ==
  IF isRestartingRef \/ ~L
    THEN UNCHANGED <<isRestartingRef, running, restartTimeoutRef>>
    ELSE /\ isRestartingRef' = TRUE
         /\ running' = IF running \in Started THEN "aborted" ELSE running
         /\ restartTimeoutRef' = Timer(L, Min(restartDelayRef, MaxRestartDelay))

\* The no-speech case treated like a fatal error
OnNoSpeechGivesUp(L) ==
  error' = "No speech detected" /\ isListening' = FALSE /\ UNCHANGED delayedTimers

\* The no-speech case of onerror: no error is shown, the hook keeps
\* listening and restartRecognition is called 500 ms later
OnNoSpeech(L) ==
  /\ delayedTimers' = IF L THEN delayedTimers \cup {Timer(L, 500)} ELSE delayedTimers
  /\ UNCHANGED <<error, isListening>>

\* recognition.onerror of the robust hook, for handlers that captured
\* isListening = L
RobustOnError(L, e) ==
  LET n == consecutiveErrorsRef + 1
      arm(d) == delayedTimers' = delayedTimers \cup {Timer(L, d)}
      fatal(msg) == error' = msg /\ isListening' = FALSE /\ UNCHANGED delayedTimers
  IN /\ consecutiveErrorsRef' = n
     /\ CASE e = "no-speech" -> OnNoSpeech(L)
          [] e = "audio-capture" -> fatal("Microphone access denied or unavailable")
          [] e = "not-allowed" -> fatal("Microphone permission denied")
          [] e = "network" ->
               /\ error' = "Network error - check your connection"
               /\ IF n < maxConsecutiveErrors
                    THEN arm(2000) /\ UNCHANGED isListening
                    ELSE isListening' = FALSE /\ UNCHANGED delayedTimers
          [] e = "service-not-allowed" -> fatal("Speech recognition service not allowed")
          [] e = "language-not-supported" -> fatal("Language not supported")
          [] OTHER ->
               IF n < maxConsecutiveErrors /\ L
                 THEN arm(1000) /\ UNCHANGED <<error, isListening>>
                 ELSE fatal("Speech recognition error")

\* recognition.onend of the robust hook
RobustOnEnd(L) ==
  delayedTimers' = IF L /\ ~isRestartingRef THEN delayedTimers \cup {Timer(L, 100)}
                   ELSE delayedTimers

\* The engine reports that the current instance has started (onstart)
EngineStart ==
  /\ Settled
  /\ variant \in Local
  /\ running = "starting"
  /\ running' = "yes"
  /\ error' = NoError
  /\ IF variant = "robust"
       THEN consecutiveErrorsRef' = 0 /\ lastResultTimeRef' = now
       ELSE UNCHANGED <<consecutiveErrorsRef, lastResultTimeRef>>
  /\ lastOp' = Op("onstart", <<>>)
  /\ UNCHANGED <<variant, langvars, audiovars, now, ticksLeft, tvars, pvars, isListening, recL, initL, isRestartingRef,
                 restartDelayRef, restartTimeoutRef, delayedTimers, forceRestartIntervalRef,
                 oldEvents, remotevars, appvars, counters, ghostvars>>

\* The engine reports an error on the current instance (onerror); the end
\* event follows.  An aborted instance may report "aborted" before it ends.
EngineError(e) ==
  /\ Settled
  /\ variant \in Local
  /\ \/ running \in Started /\ e # "aborted"
     \/ running = "aborted" /\ e = "aborted"
  /\ running' = "ending"
  /\ errorsLeft > 0
  /\ errorsLeft' = errorsLeft - 1
  /\ IF variant = "robust"
       THEN RobustOnError(recL, e)
       ELSE \* setError(event.error); the timer it arms tests the isListening
            \* captured at mount, which is false
            /\ error' = e
            /\ UNCHANGED <<isListening, consecutiveErrorsRef, delayedTimers>>
  /\ lastOp' = Op("error", e)
  /\ UNCHANGED <<variant, langvars, audiovars, now, ticksLeft, tvars, pvars, recL, initL, isRestartingRef,
                 restartDelayRef, restartTimeoutRef, lastResultTimeRef, forceRestartIntervalRef,
                 oldEvents, remotevars, appvars, eventsLeft, opsLeft, ghostvars>>

\* The current instance ends (onend): after stop, abort or an error, or on
\* the engine's own initiative
EngineEnd ==
  /\ Settled
  /\ variant \in Local
  /\ running \in {"yes", "aborted", "ending"}
  /\ running' = "no"
  /\ IF variant = "robust" THEN RobustOnEnd(recL) ELSE UNCHANGED delayedTimers
  /\ lastOp' = Op("other", <<>>)
  /\ UNCHANGED <<variant, langvars, audiovars, now, ticksLeft, tvars, pvars, isListening, error, recL, initL,
                 isRestartingRef, consecutiveErrorsRef, restartDelayRef, restartTimeoutRef,
                 lastResultTimeRef, forceRestartIntervalRef, oldEvents, remotevars, appvars,
                 counters, ghostvars>>

Old(L, st) == [L |-> L, st |-> st]

\* The instance in recognitionRef.current is replaced: the events it still
\* owes are delivered to its own handlers later.
\* (the end event of handlers that captured isListening = FALSE does nothing
\* and is not tracked)
Displaced ==
  IF running = "no" \/ (running = "ending" /\ ~recL) THEN oldEvents
  ELSE oldEvents \cup {Old(recL, IF running \in Started THEN "aborted" ELSE running)}

\* A replaced instance reports "aborted" (onerror of its handlers)
OldInstanceError(o) ==
  /\ Settled
  /\ variant = "robust"
  /\ o \in oldEvents
  /\ o.st = "aborted"
  /\ errorsLeft > 0
  /\ errorsLeft' = errorsLeft - 1
  /\ oldEvents' = (oldEvents \ {o}) \cup (IF o.L THEN {Old(o.L, "ending")} ELSE {})
  /\ RobustOnError(o.L, "aborted")
  /\ lastOp' = Op("old-error", o)
  /\ UNCHANGED <<variant, langvars, audiovars, now, ticksLeft, tvars, pvars, running, recL, initL, isRestartingRef,
                 restartDelayRef, restartTimeoutRef, lastResultTimeRef, forceRestartIntervalRef,
                 remotevars, appvars, eventsLeft, opsLeft, ghostvars>>

\* A replaced instance ends (onend of its handlers)
OldInstanceEnd(o) ==
  /\ Settled
  /\ variant = "robust"
  /\ o \in oldEvents
  /\ oldEvents' = oldEvents \ {o}
  /\ RobustOnEnd(o.L)
  /\ lastOp' = Op("other", <<>>)
  /\ UNCHANGED <<variant, langvars, audiovars, now, ticksLeft, tvars, pvars, isListening, error, running, recL, initL,
                 isRestartingRef, consecutiveErrorsRef, restartDelayRef, restartTimeoutRef,
                 lastResultTimeRef, forceRestartIntervalRef, remotevars, appvars, counters,
                 ghostvars>>

\* The render after isListening changed: initializeRecognition is a new
\* function, so the mount effect is cleaned up (abort, clearTimeout) and
\* run again (a new, not started instance), and the interval effects are
\* set up for the new value.
RenderEffects ==
  /\ RenderPending
  /\ oldEvents' = Displaced
  /\ restartTimeoutRef' = NoTimer
  /\ running' = "no"
  /\ recL' = isListening
  /\ initL' = isListening
  /\ recLang' = language
  /\ initLang' = language
  /\ closureLang' = IF initL # isListening THEN language ELSE closureLang
  /\ forceRestartIntervalRef' = IF isListening THEN <<now + ForceRestartIntervalMs>> ELSE <<>>
  /\ lastOp' = Op("other", <<>>)
  /\ UNCHANGED <<variant, language, languageTimer, audiovars, now, ticksLeft, tvars, pvars, isListening, error, isRestartingRef,
                 consecutiveErrorsRef, restartDelayRef, delayedTimers, lastResultTimeRef,
                 remotevars, appvars, counters, ghostvars>>

\* A timer armed by onerror or onend fires and calls restartRecognition
DelayedTimerFires(t) ==
  /\ Settled
  /\ variant = "robust"
  /\ t \in delayedTimers
  /\ delayedTimers' = delayedTimers \ {t}
  /\ RestartRecognition(t.L)
  /\ lastOp' = Op("timer", t)
  /\ UNCHANGED <<variant, langvars, audiovars, now, ticksLeft, tvars, pvars, isListening, error, recL, initL,
                 consecutiveErrorsRef, restartDelayRef, lastResultTimeRef,
                 forceRestartIntervalRef, oldEvents, remotevars, appvars, counters, ghostvars>>

\* The restart timer's success path with the delay left as it was
ResetCounterOnly == consecutiveErrorsRef' = 0 /\ UNCHANGED restartDelayRef

\* After start() returned in the restart timer: the failure counter and the
\* backoff delay are reset.
ResetBackoff == consecutiveErrorsRef' = 0 /\ restartDelayRef' = InitialRestartDelay

\* The timer of restartRecognition fires; ok = FALSE when starting the new
\* instance throws.
RestartTimerFires(ok) ==
  /\ Settled
  /\ variant = "robust"
  /\ restartTimeoutRef # NoTimer
  /\ restartTimeoutRef' = NoTimer
  /\ isRestartingRef' = FALSE
  /\ oldEvents' = Displaced
  /\ recL' = restartTimeoutRef.L
  /\ recLang' = closureLang
  /\ IF ok
       THEN /\ running' = "starting"
            /\ ResetBackoff
            /\ UNCHANGED <<error, isListening, errorsLeft>>
       ELSE /\ errorsLeft > 0
            /\ errorsLeft' = errorsLeft - 1
            /\ running' = "no"
            /\ consecutiveErrorsRef' = consecutiveErrorsRef + 1
            /\ restartDelayRef' = restartDelayRef * 2
            /\ IF consecutiveErrorsRef + 1 < maxConsecutiveErrors
                 THEN \* restartRecognition() returns at once: isRestartingRef is still set
                      UNCHANGED <<error, isListening>>
                 ELSE /\ error' = "Speech recognition failed after multiple attempts"
                      /\ isListening' = FALSE
  /\ lastOp' = Op("restart", ok)
  /\ UNCHANGED <<variant, language, initLang, closureLang, languageTimer, audiovars, now, ticksLeft, tvars, pvars, initL, delayedTimers, lastResultTimeRef,
                 forceRestartIntervalRef,
                 remotevars, appvars, eventsLeft, opsLeft, ghostvars>>

\* The monitor interval restarting whatever the age of the last result
WatchdogAnyTime ==
  /\ Settled
  /\ variant = "robust"
  /\ initL
  /\ ~isRestartingRef
  /\ RestartRecognition(TRUE)
  /\ lastOp' = Op("watchdog", <<>>)
  /\ UNCHANGED <<variant, langvars, audiovars, now, ticksLeft, tvars, pvars, isListening, error, recL, initL,
                 consecutiveErrorsRef, restartDelayRef, delayedTimers, lastResultTimeRef,
                 forceRestartIntervalRef, oldEvents, remotevars, appvars, counters, ghostvars>>

\* The 5-second monitor interval finds the last result too old
Watchdog ==
  /\ Settled
  /\ variant = "robust"
  /\ initL
  /\ now - lastResultTimeRef > StaleIntervalMs
  /\ ~isRestartingRef
  /\ RestartRecognition(TRUE)
  /\ lastOp' = Op("watchdog", <<>>)
  /\ UNCHANGED <<variant, langvars, audiovars, now, ticksLeft, tvars, pvars, isListening, error, recL, initL,
                 consecutiveErrorsRef, restartDelayRef, delayedTimers, lastResultTimeRef,
                 forceRestartIntervalRef, oldEvents, remotevars, appvars, counters, ghostvars>>

\* The 4-minute interval fires: a preventive restart unless one is under way
PreventiveRestart ==
  /\ Settled
  /\ variant = "robust"
  /\ forceRestartIntervalRef # <<>>
  /\ now >= forceRestartIntervalRef[1]
  /\ forceRestartIntervalRef' = <<forceRestartIntervalRef[1] + ForceRestartIntervalMs>>
  /\ RestartRecognition(TRUE)
  /\ lastOp' = Op("rotation", ~isRestartingRef)
  /\ UNCHANGED <<variant, langvars, audiovars, now, ticksLeft, tvars, pvars, isListening, error, recL, initL,
                 consecutiveErrorsRef, restartDelayRef, delayedTimers, lastResultTimeRef,
                 oldEvents, remotevars, appvars, counters, ghostvars>>

\* ------------------------------------------------------------------------
\* The remote-socket controller
\* ------------------------------------------------------------------------
Turn(eot, t) == [type |-> "Turn", end_of_turn |-> eot, transcript |-> t]
Messages == { Turn(TRUE, HelloWorld), Turn(TRUE, SpB), Turn(FALSE, HelloWor), Turn(FALSE, P60),
              Turn(FALSE, Empty),
              [type |-> "Begin", end_of_turn |-> FALSE, transcript |-> Empty] }

\* The messages delivered when the connection is in focus
MessagesC == { Turn(TRUE, HelloWorld), Turn(FALSE, HelloWor) }

\* onmessage with the partial text appended to the previous interim text
RemoteOnMessageAppend(m, st) ==
  IF m.type = "Turn" /\ m.end_of_turn /\ m.transcript # Empty
    THEN [transcript |-> m.transcript, interim |-> Empty]
  ELSE IF m.type = "Turn" /\ ~m.end_of_turn /\ m.transcript # Empty
    THEN [transcript |-> st.transcript, interim |-> st.interim \o m.transcript]
  ELSE [transcript |-> st.transcript, interim |-> st.interim]

\* socketRef.current.onmessage as a function of the message
RemoteOnMessage(m, st) ==
  IF m.type = "Turn" /\ m.end_of_turn /\ m.transcript # Empty
    THEN [transcript |-> m.transcript, interim |-> Empty]
  ELSE IF m.type = "Turn" /\ ~m.end_of_turn /\ m.transcript # Empty
    THEN [transcript |-> st.transcript, interim |-> m.transcript]
  ELSE [transcript |-> st.transcript, interim |-> st.interim]

\* startListening up to the first await (the model follows one call at a
\* time and a bounded number of dropped sockets)
RemoteStartListening ==
  /\ startPc = "idle"
  /\ staleSocks < MaxStale
  /\ IF ~isListening
       THEN error' = NoError /\ startPc' = "token"
       ELSE UNCHANGED <<error, startPc>>
  /\ UNCHANGED <<isListening, localvars, sock, staleSocks, mic>>

\* stopListening
RemoteStopListening ==
  /\ IF isListening /\ sock # "none"
       THEN /\ mic' = FALSE
            /\ sock' = "none"
            /\ staleSocks' = IF sock \in {"connecting", "open"} THEN staleSocks + 1 ELSE staleSocks
            /\ isListening' = FALSE
       ELSE UNCHANGED <<mic, sock, staleSocks, isListening>>
  /\ UNCHANGED <<error, localvars, startPc>>

\* getToken returns and the socket is created whether or not a token was
\* issued
TokenResultOpening(ok) ==
  /\ Settled
  /\ variant = "remote"
  /\ startPc = "token"
  /\ ok \/ errorsLeft > 0
  /\ startPc' = "media"
  /\ sock' = "connecting"
  /\ staleSocks' = IF sock \in {"connecting", "open", "failed"} THEN staleSocks + 1 ELSE staleSocks
  /\ error' = IF ok THEN error ELSE "Failed to connect to speech service."
  /\ errorsLeft' = IF ok THEN errorsLeft ELSE errorsLeft - 1
  /\ lastOp' = Op("token", ok)
  /\ UNCHANGED <<variant, langvars, audiovars, now, ticksLeft, tvars, pvars, isListening, localvars, mic,
                 appvars, eventsLeft, opsLeft, ghostvars>>

\* getToken returns: the socket is created when a token was issued
TokenResult(ok) ==
  /\ Settled
  /\ variant = "remote"
  /\ startPc = "token"
  /\ IF ok
       THEN /\ startPc' = "media"
            /\ sock' = "connecting"
            /\ staleSocks' = IF sock \in {"connecting", "open", "failed"} THEN staleSocks + 1 ELSE staleSocks
            /\ UNCHANGED error
       ELSE /\ errorsLeft > 0
            /\ startPc' = "idle"
            /\ error' = "Failed to connect to speech service."
            /\ UNCHANGED <<sock, staleSocks>>
  /\ errorsLeft' = IF ok THEN errorsLeft ELSE errorsLeft - 1
  /\ lastOp' = Op("token", ok)
  /\ UNCHANGED <<variant, langvars, audiovars, now, ticksLeft, tvars, pvars, isListening, localvars, mic,
                 appvars, eventsLeft, opsLeft, ghostvars>>

\* getUserMedia returns: the audio graph is built, or the catch block runs
MediaResult(ok) ==
  /\ Settled
  /\ variant = "remote"
  /\ startPc = "media"
  /\ startPc' = "idle"
  /\ IF ok
       THEN mic' = TRUE /\ UNCHANGED <<error, isListening>>
       ELSE /\ errorsLeft > 0
            /\ error' = "Failed to start transcription."
            /\ isListening' = FALSE
            /\ UNCHANGED mic
  /\ errorsLeft' = IF ok THEN errorsLeft ELSE errorsLeft - 1
  /\ lastOp' = Op("media", ok)
  /\ UNCHANGED <<variant, langvars, audiovars, now, ticksLeft, tvars, pvars, localvars, sock, staleSocks,
                 appvars, eventsLeft, opsLeft, ghostvars>>

\* socketRef.current.onopen
SocketOpen ==
  /\ Settled
  /\ variant = "remote"
  /\ sock = "connecting"
  /\ sock' = "open"
  /\ isListening' = TRUE
  /\ lastOp' = Op("open", <<>>)
  /\ UNCHANGED <<variant, langvars, audiovars, now, ticksLeft, tvars, pvars, error, localvars, staleSocks, mic, startPc,
                 appvars, counters, ghostvars>>

\* socketRef.current.onclose
SocketClose ==
  /\ Settled
  /\ variant = "remote"
  /\ sock \in {"connecting", "open", "failed"}
  /\ sock' = "closed"
  /\ isListening' = FALSE
  /\ lastOp' = Op("close", <<>>)
  /\ UNCHANGED <<variant, langvars, audiovars, now, ticksLeft, tvars, pvars, error, localvars, staleSocks, mic, startPc,
                 appvars, counters, ghostvars>>

\* onclose of a socket that socketRef no longer holds
StaleSocketClose ==
  /\ Settled
  /\ variant = "remote"
  /\ staleSocks > 0
  /\ staleSocks' = staleSocks - 1
  /\ isListening' = FALSE
  /\ lastOp' = Op("stale-close", <<>>)
  /\ UNCHANGED <<variant, langvars, audiovars, now, ticksLeft, tvars, pvars, error, localvars, sock, mic, startPc,
                 appvars, counters, ghostvars>>

\* socketRef.current.onerror: the browser fires it when the connection
\* fails; the close event of the failed socket follows
SocketError ==
  /\ Settled
  /\ variant = "remote"
  /\ sock \in {"connecting", "open"}
  /\ errorsLeft > 0
  /\ errorsLeft' = errorsLeft - 1
  /\ error' = "Transcription error."
  /\ isListening' = FALSE
  /\ sock' = "failed"
  /\ lastOp' = Op("socket-error", <<>>)
  /\ UNCHANGED <<variant, langvars, audiovars, now, ticksLeft, tvars, pvars, localvars, staleSocks, mic, startPc,
                 appvars,
                 eventsLeft, opsLeft, ghostvars>>

\* socketRef.current.onmessage
OnMessage(m) ==
  /\ Settled
  /\ variant = "remote"
  /\ sock = "open"
  /\ eventsLeft > 0
  /\ LET r == RemoteOnMessage(m, TState)
         final == m.type = "Turn" /\ m.end_of_turn
     IN /\ transcript' = r.transcript
        /\ interimTranscript' = r.interim
        /\ utterance' = IF final THEN utterance + 1 ELSE utterance
        /\ finalsSinceReset' = IF final THEN Append(finalsSinceReset, m.transcript)
                               ELSE finalsSinceReset
        /\ emitted' = IF final THEN Append(emitted, Entry(utterance, m.transcript, "final"))
                      ELSE emitted
  /\ eventsLeft' = eventsLeft - 1
  /\ UNCHANGED <<errorsLeft, opsLeft>>
  /\ lastOp' = Op("message", m)
  /\ UNCHANGED <<variant, langvars, audiovars, now, ticksLeft, latestFinalSegment, confidence, finalTranscriptRef, pvars,
                 connvars, appvars, pushed, appended, finalsForNote>>

\* ------------------------------------------------------------------------
\* The audio frames of the remote hook.  A sample is a multiple of
\* 1/SampleUnit: the integer s stands for the float s / SampleUnit.
\* ------------------------------------------------------------------------
SampleUnit == 10

Samples == {-2 * SampleUnit, -SampleUnit - 1, -SampleUnit, -SampleUnit + 1, -(SampleUnit \div 2),
            -1, 0, 1, SampleUnit \div 2, SampleUnit - 1, SampleUnit, SampleUnit + 1,
            2 * SampleUnit}

Buffers == UNION { [1..n -> Samples] : n \in 1..MaxBuffer }

\* Math.max(-1, Math.min(1, s))
Clamp(s) == IF s < -SampleUnit THEN -SampleUnit ELSE IF s > SampleUnit THEN SampleUnit ELSE s

\* The integer part of n / d, as the conversion to an integer type takes it
Trunc(n, d) == IF n >= 0 THEN n \div d ELSE -((-n) \div d)

\* The store into an Int16Array element: the integer modulo 2^16
ToInt16(x) == ((x + 32768) % 65536) - 32768

\* Both signs scaled by 0x8000
ScaleSymmetric(c) == c * 32768

\* sample < 0 ? sample * 0x8000 : sample * 0x7FFF
Scale(c) == IF c < 0 THEN c * 32768 ELSE c * 32767

\* pcm16View[i] for the input sample s
Pcm16(s) == ToInt16(Trunc(Scale(Clamp(s)), SampleUnit))

\* processor.onaudioprocess: the buffer is converted and, when the socket
\* is open, sent
OnAudioProcess(buf) ==
  /\ Settled
  /\ variant = "remote"
  /\ mic
  /\ pcmIn' = buf
  /\ pcmOut' = [i \in 1..Len(buf) |-> Pcm16(buf[i])]
  /\ lastOp' = Op("audio", sock = "open")
  /\ UNCHANGED <<variant, langvars, now, ticksLeft, tvars, pvars, connvars, appvars, counters,
                 ghostvars>>

\* ------------------------------------------------------------------------
\* Force-flush of the auto-push variant
\* ------------------------------------------------------------------------

\* The condition of checkAndPushInterim
ShouldPush(interim, timeSinceLastPush) ==
  /\ interim # Empty
  /\ \/ Len(interim) > HighWatermarkAutoPush
     \/ Len(interim) > LowWatermark /\ timeSinceLastPush > PushTimeoutMs

\* The effect on [interimTranscript, isListening, checkAndPushInterim]: it
\* runs in the render after one of them changed and calls
\* checkAndPushInterim with the interim text of that render.
AutoPushEffect ==
  /\ PushPending
  /\ pushEffectDeps' = <<interimTranscript, isListening>>
  /\ IF /\ isListening
        /\ interimTranscript # Empty
        /\ ShouldPush(interimTranscript, now - lastPushTimeRef)
        /\ autoPushCallbackRef
       THEN /\ pushed' = Append(pushed, interimTranscript)
            /\ lastPushTimeRef' = now
            /\ interimTranscript' = Empty
            /\ finalTranscriptRef' = finalTranscriptRef \o interimTranscript \o Space
            /\ transcript' = Trim(finalTranscriptRef')
            /\ emitted' = Append(emitted, Entry(utterance, interimTranscript, "flush"))
            /\ lastOp' = Op("flush", interimTranscript)
       ELSE /\ UNCHANGED <<pushed, lastPushTimeRef, interimTranscript, finalTranscriptRef,
                          transcript, emitted>>
            /\ lastOp' = Op("push-effect", <<>>)
  /\ UNCHANGED <<variant, langvars, audiovars, now, ticksLeft, latestFinalSegment, confidence, autoPushCallbackRef,
                 connvars, appvars, eventsLeft, errorsLeft, opsLeft, utterance, finalsSinceReset, appended,
                 finalsForNote>>

\* ------------------------------------------------------------------------
\* resetTranscript
\* ------------------------------------------------------------------------

\* resetTranscript of the local-engine hooks, on the transcript state
LocalReset(st) ==
  [ latest |-> Empty, ref |-> Empty, transcript |-> Empty, interim |-> Empty,
    confidence |-> 0, callback |-> st.callback ]

\* resetTranscript of the remote hook: it has only the two state values
RemoteReset(st) ==
  [ latest |-> st.latest, ref |-> st.ref, transcript |-> Empty, interim |-> Empty,
    confidence |-> st.confidence, callback |-> st.callback ]

ResetOf(st) == IF variant = "remote" THEN RemoteReset(st) ELSE LocalReset(st)

\* The assignments of resetTranscript
ClearTranscript ==
  LET r == ResetOf(TState)
  IN /\ transcript' = r.transcript
     /\ interimTranscript' = r.interim
     /\ latestFinalSegment' = r.latest
     /\ finalTranscriptRef' = r.ref
     /\ confidence' = r.confidence
     /\ finalsSinceReset' = <<>>
     /\ emitted' = <<>>

\* A reset that also marks the session as not listening
ResetTranscriptStopping ==
  /\ ClearTranscript
  /\ isListening' = FALSE
  /\ UNCHANGED <<error, localvars, remotevars>>

\* resetTranscript as a whole: it assigns nothing else
ResetTranscript ==
  /\ ClearTranscript
  /\ UNCHANGED connvars

\* ------------------------------------------------------------------------
\* useNotes and the App
\* ------------------------------------------------------------------------
\* createNote: the new note
Note(id) == [id |-> id, content |-> Empty, wordCount |-> 0, isRecording |-> FALSE,
             startTime |-> <<>>, duration |-> 0]

\* content.split(/\s+/).filter(word => word.length > 0).length
RECURSIVE WordCount(_)
WordCount(s) ==
  IF s = <<>> THEN 0
  ELSE IF IsWs(Head(s)) THEN WordCount(Tail(s))
  ELSE IF Len(s) = 1 \/ IsWs(s[2]) THEN 1 + WordCount(Tail(s))
  ELSE WordCount(Tail(s))

HasNote(ns, id) == \E i \in 1..Len(ns) : ns[i].id = id

\* appendToNote: the new content of the note
AppendContent(n, text) ==
  LET newContent == (IF n.content # Empty THEN n.content \o Space ELSE Empty) \o text
  IN [n EXCEPT !.content = newContent, !.wordCount = WordCount(newContent)]

\* appendToNote: notes.map
AppendToNotes(ns, id, text) ==
  [i \in 1..Len(ns) |-> IF ns[i].id = id THEN AppendContent(ns[i], text) ELSE ns[i]]

\* updateNote(id, { content }): the updated note.  An empty content is
\* falsy, and the note then keeps its word count.
UpdateContent(n, c) ==
  [n EXCEPT !.content = c, !.wordCount = IF c # Empty THEN WordCount(c) ELSE n.wordCount]

\* updateNote(id, { content: '' }): notes.map
ClearContent(n) == UpdateContent(n, Empty)

ClearNotes(ns, id) ==
  [i \in 1..Len(ns) |-> IF ns[i].id = id THEN ClearContent(ns[i]) ELSE ns[i]]

\* The note of the list an update is computed from; NoNote when the list
\* has no note with that id, and nothing is updated then
NoteOf(ns, id) ==
  IF HasNote(ns, id) THEN CHOOSE n \in {ns[i] : i \in 1..Len(ns)} : n.id = id ELSE NoNote

\* updateNote and appendToNote: prev.map with the updated note u
ReplaceNote(ns, u) ==
  [i \in 1..Len(ns) |-> IF ns[i].id = u.id THEN u ELSE ns[i]]

\* updateNote and appendToNote: the updated note of the list becomes
\* currentNote when the ids match
ReplaceCurrent(cur, u) == IF cur # NoNote /\ cur.id = u.id THEN u ELSE cur

\* startRecording: the updates of the note
MarkRecording(n) == [n EXCEPT !.isRecording = TRUE, !.startTime = <<now>>]

\* stopRecording: the updates of a note that has a start time
MarkStopped(n) ==
  [n EXCEPT !.isRecording = FALSE,
            !.duration = n.duration + ((now - n.startTime[1]) \div 1000)]

\* stopRecording: nothing happens to a note without a start time
StopRecordingOf(n) == IF n.startTime # <<>> THEN MarkStopped(n) ELSE n

StartListening ==
  CASE variant = "robust" -> RobustStartListening
    [] variant = "remote" -> RemoteStartListening
    [] OTHER -> BasicStartListening

StopListening ==
  CASE variant = "robust" -> RobustStopListening
    [] variant = "remote" -> RemoteStopListening
    [] OTHER -> BasicStopListening

\* handleStartRecording
HandleStartRecording ==
  /\ Settled
  /\ ~isRecording
  /\ opsLeft > 0
  /\ opsLeft' = opsLeft - 1
  /\ IF currentNote = NoNote
       THEN /\ nextId =< MaxNotes
            /\ notes' = <<Note(nextId)>> \o notes
            /\ currentNote' = Note(nextId)
            /\ nextId' = nextId + 1
       ELSE /\ notes' = ReplaceNote(notes, MarkRecording(NoteOf(notes, currentNote.id)))
            /\ currentNote' = ReplaceCurrent(currentNote,
                                             MarkRecording(NoteOf(notes, currentNote.id)))
            /\ UNCHANGED nextId
  /\ isRecording' = TRUE
  /\ recordingStartTime' = <<now>>
  /\ elapsedTime' = 0
  /\ ClearTranscript
  /\ StartListening
  /\ lastOp' = Op("handleStartRecording", <<>>)
  /\ UNCHANGED <<variant, langvars, audiovars, now, ticksLeft, pvars, lastProcessedSegment, isPaused, eventsLeft, errorsLeft,
                 utterance, pushed, appended, finalsForNote>>

\* handleStopRecording, from RecordingControls.handleStop
HandleStopRecording ==
  /\ Settled
  /\ isRecording
  /\ opsLeft > 0
  /\ opsLeft' = opsLeft - 1
  /\ isRecording' = FALSE
  /\ recordingStartTime' = <<>>
  /\ isPaused' = FALSE
  /\ StopListening
  /\ IF currentNote # NoNote
       THEN /\ notes' = ReplaceNote(notes, StopRecordingOf(NoteOf(notes, currentNote.id)))
            /\ currentNote' = ReplaceCurrent(currentNote,
                                             StopRecordingOf(NoteOf(notes, currentNote.id)))
       ELSE UNCHANGED <<notes, currentNote>>
  /\ lastOp' = Op("handleStopRecording", <<>>)
  /\ UNCHANGED <<variant, langvars, audiovars, now, ticksLeft, tvars, pvars, nextId,
                 lastProcessedSegment, elapsedTime, eventsLeft, errorsLeft, ghostvars>>

\* A pause that also clears the transcript state, as a reset does
HandlePauseRecordingClearing ==
  /\ Settled
  /\ isRecording /\ ~isPaused
  /\ opsLeft > 0
  /\ opsLeft' = opsLeft - 1
  /\ isPaused' = TRUE
  /\ StopListening
  /\ ClearTranscript
  /\ lastOp' = Op("handlePauseRecording", <<>>)
  /\ UNCHANGED <<variant, langvars, audiovars, now, ticksLeft, pvars, notes, currentNote, nextId,
                 lastProcessedSegment, isRecording, recordingStartTime, elapsedTime, eventsLeft,
                 errorsLeft, utterance, pushed, appended, finalsForNote>>

\* handlePauseRecording, from RecordingControls.handleMainAction
HandlePauseRecording ==
  /\ Settled
  /\ isRecording /\ ~isPaused
  /\ opsLeft > 0
  /\ opsLeft' = opsLeft - 1
  /\ isPaused' = TRUE
  /\ StopListening
  /\ lastOp' = Op("handlePauseRecording", <<>>)
  /\ UNCHANGED <<variant, langvars, audiovars, now, ticksLeft, tvars, pvars, notes, currentNote, nextId,
                 lastProcessedSegment, isRecording, recordingStartTime, elapsedTime, eventsLeft, errorsLeft, ghostvars>>

\* handleResumeRecording, from RecordingControls.handleMainAction
HandleResumeRecording ==
  /\ Settled
  /\ isRecording /\ isPaused
  /\ opsLeft > 0
  /\ opsLeft' = opsLeft - 1
  /\ isPaused' = FALSE
  /\ StartListening
  /\ lastOp' = Op("handleResumeRecording", <<>>)
  /\ UNCHANGED <<variant, langvars, audiovars, now, ticksLeft, tvars, pvars, notes, currentNote, nextId,
                 lastProcessedSegment, isRecording, recordingStartTime, elapsedTime, eventsLeft, errorsLeft, ghostvars>>

\* handleReset, from RecordingControls.handleReset
HandleReset ==
  /\ Settled
  /\ isRecording \/ elapsedTime # 0
  /\ opsLeft > 0
  /\ opsLeft' = opsLeft - 1
  /\ ResetTranscript
  /\ elapsedTime' = 0
  /\ isPaused' = FALSE
  /\ IF currentNote # NoNote
       THEN /\ notes' = ClearNotes(notes, currentNote.id)
            /\ currentNote' = ReplaceCurrent(currentNote,
                                             ClearContent(NoteOf(notes, currentNote.id)))
       ELSE UNCHANGED <<notes, currentNote>>
  /\ lastOp' = Op("handleReset", <<>>)
  /\ UNCHANGED <<variant, langvars, audiovars, now, ticksLeft, pvars, nextId, lastProcessedSegment,
                 isRecording, recordingStartTime, eventsLeft, errorsLeft, utterance, pushed, appended,
                 finalsForNote>>

\* handleNewNote: createNote
HandleNewNote ==
  /\ Settled
  /\ nextId =< MaxNotes
  /\ notes' = <<Note(nextId)>> \o notes
  /\ currentNote' = Note(nextId)
  /\ nextId' = nextId + 1
  /\ lastOp' = Op("handleNewNote", <<>>)
  /\ UNCHANGED <<variant, langvars, audiovars, now, ticksLeft, tvars, pvars, connvars, lastProcessedSegment, recvars,
                 counters, ghostvars>>

\* onNoteSelect = setCurrentNote, with a note of the list
SelectNote(i) ==
  /\ Settled
  /\ i \in 1..Len(notes)
  /\ currentNote # notes[i]
  /\ currentNote' = notes[i]
  /\ lastOp' = Op("selectNote", notes[i].id)
  /\ UNCHANGED <<variant, langvars, audiovars, now, ticksLeft, tvars, pvars, connvars, notes, nextId,
                 lastProcessedSegment, recvars, counters, ghostvars>>

\* A deletion that leaves currentNote as it is
DeleteNoteKeepingCurrent(i) ==
  /\ Settled
  /\ i \in 1..Len(notes)
  /\ notes' = SelectSeq(notes, LAMBDA n : n.id # notes[i].id)
  /\ lastOp' = Op("deleteNote", notes[i].id)
  /\ UNCHANGED <<variant, langvars, audiovars, now, ticksLeft, tvars, pvars, connvars, currentNote,
                 nextId, lastProcessedSegment, recvars, counters, ghostvars>>

\* deleteNote
DeleteNote(i) ==
  /\ Settled
  /\ i \in 1..Len(notes)
  /\ notes' = SelectSeq(notes, LAMBDA n : n.id # notes[i].id)
  /\ currentNote' = IF currentNote # NoNote /\ currentNote.id = notes[i].id THEN NoNote
                    ELSE currentNote
  /\ lastOp' = Op("deleteNote", notes[i].id)
  /\ UNCHANGED <<variant, langvars, audiovars, now, ticksLeft, tvars, pvars, connvars, nextId,
                 lastProcessedSegment, recvars, counters, ghostvars>>

\* The texts typed into the editor of the current note
Contents == { Empty, <<"a", " ", " ", "b", " ">> }

\* RichTextEditor.onChange: updateNote(currentNote.id, { content })
EditContent(c) ==
  /\ Settled
  /\ currentNote # NoNote
  /\ currentNote.content # c
  /\ LET u == UpdateContent(NoteOf(notes, currentNote.id), c)
     IN /\ notes' = ReplaceNote(notes, u)
        /\ currentNote' = ReplaceCurrent(currentNote, u)
  /\ lastOp' = Op("updateNote", c)
  /\ UNCHANGED <<variant, langvars, audiovars, now, ticksLeft, tvars, pvars, connvars, nextId,
                 lastProcessedSegment, recvars, counters, ghostvars>>

\* The App effect on [latestFinalSegment, currentNote, appendToNote,
\* lastProcessedSegment]
AppendEffect ==
  /\ SegmentPending
  /\ LET add(n) == AppendContent(n, latestFinalSegment)
     IN /\ notes' = AppendToNotes(notes, currentNote.id, latestFinalSegment)
        /\ currentNote' = ReplaceCurrent(currentNote, add(NoteOf(notes, currentNote.id)))
        /\ appended' = IF HasNote(notes, currentNote.id)
                         THEN Append(appended, <<currentNote.id, latestFinalSegment>>)
                         ELSE appended
  /\ lastProcessedSegment' = latestFinalSegment
  /\ lastOp' = Op("append-effect", latestFinalSegment)
  /\ UNCHANGED <<variant, langvars, audiovars, now, ticksLeft, tvars, pvars, connvars, nextId, recvars, eventsLeft, errorsLeft, opsLeft,
                 utterance, pushed, emitted, finalsSinceReset, finalsForNote>>

\* ------------------------------------------------------------------------
\* changeLanguage of the local-engine hooks
\* ------------------------------------------------------------------------
Languages == {"en-US", "es-ES"}

\* The values the timer callback of changeLanguage captured: wasListening
\* (which is also the isListening of its startListening and
\* initializeRecognition) and the language of that render
LanguageTimer(was, lang) == [was |-> was, lang |-> lang]

\* The effect on [language] of the basic and the auto-push hook: the
\* cleanup aborts the instance and a new one is created for the new
\* language.  The aborted instance may still report the error "aborted",
\* which its onerror stores.
LanguageEffect ==
  /\ LanguagePending
  /\ initLang' = language
  /\ recLang' = language
  /\ running' = "no"
  /\ error' \in (IF running = "no" THEN {error} ELSE {error, "aborted"})
  /\ lastOp' = Op("other", <<>>)
  /\ UNCHANGED <<variant, language, closureLang, languageTimer, audiovars, now, ticksLeft, tvars,
                 pvars, isListening, robustrefs, remotevars, appvars, counters, ghostvars>>

\* changeLanguage(l)
ChangeLanguage(l) ==
  /\ Settled
  /\ variant \in Local
  /\ languageTimer = <<>>
  /\ opsLeft > 0
  /\ opsLeft' = opsLeft - 1
  /\ IF isListening THEN StopListening ELSE UNCHANGED connvars
  /\ language' = l
  /\ languageTimer' = IF variant = "robust" \/ isListening
                        THEN <<LanguageTimer(isListening, language)>> ELSE <<>>
  /\ lastOp' = Op("changeLanguage", isListening)
  /\ UNCHANGED <<variant, recLang, initLang, closureLang, audiovars, now, ticksLeft, tvars, pvars,
                 appvars, eventsLeft, errorsLeft, ghostvars>>

\* The 100 ms timer of changeLanguage fires.  The robust hook calls the
\* initializeRecognition it captured, which puts a new instance with the
\* captured language into recognitionRef; both hooks then call the
\* startListening they captured when wasListening is true, and that
\* function tests the isListening it captured: true.
LanguageTimerFires ==
  /\ Settled
  /\ variant \in Local
  /\ languageTimer # <<>>
  /\ languageTimer' = <<>>
  /\ IF variant = "robust"
       THEN /\ oldEvents' = IF running = "no" \/ (running = "ending" /\ ~recL) THEN oldEvents
                            ELSE oldEvents \cup {Old(recL, running)}
            /\ running' = "no"
            /\ recL' = languageTimer[1].was
            /\ recLang' = languageTimer[1].lang
       ELSE UNCHANGED <<oldEvents, running, recL, recLang>>
  /\ lastOp' = Op("language-timer", languageTimer[1].was)
  /\ UNCHANGED <<variant, language, initLang, closureLang, audiovars, now, ticksLeft, tvars, pvars,
                 isListening, error, initL, isRestartingRef, consecutiveErrorsRef,
                 restartDelayRef, restartTimeoutRef, delayedTimers, lastResultTimeRef,
                 forceRestartIntervalRef, remotevars, appvars, counters, ghostvars>>

\* The steps that are no upstream event: clock, engine life cycle, timers,
\* effects and the recording controls
Control ==
  \/ SetAutoPushCallback
  \/ Tick
  \/ AutoPushEffect
  \/ EngineStart
  \/ EngineEnd
  \/ \E o \in oldEvents : OldInstanceEnd(o)
  \/ RenderEffects
  \/ \E t \in delayedTimers : DelayedTimerFires(t)
  \/ \E ok \in BOOLEAN : RestartTimerFires(ok)
  \/ Watchdog
  \/ \E ok \in BOOLEAN : TokenResult(ok)
  \/ \E ok \in BOOLEAN : MediaResult(ok)
  \/ SocketOpen
  \/ SocketClose
  \/ StaleSocketClose
  \/ HandleStartRecording
  \/ HandleStopRecording
  \/ HandlePauseRecording
  \/ HandleResumeRecording
  \/ HandleReset
  \/ AppendEffect

\* The steps of the session with a healthy upstream
Next ==
  \/ Control
  \/ \E rs \in ResultLists : OnResult(rs)
  \/ \E m \in Messages : OnMessage(m)

\* The steps of the session with upstream failures
NextC ==
  \/ Control
  \/ \E rs \in ResultListsC : OnResult(rs)
  \/ \E m \in MessagesC : OnMessage(m)
  \/ \E e \in ErrorTypes : EngineError(e)
  \/ \E o \in oldEvents : OldInstanceError(o)
  \/ SocketError

Spec == Init /\ [][Next]_vars

SpecC == InitC /\ [][NextC]_vars

\* The steps of a session of the robust hook, with upstream failures, failed
\* restarts and the 4-minute interval
NextR ==
  \/ Tick
  \/ LongTick
  \/ EngineStart
  \/ EngineEnd
  \/ \E e \in TransientErrorTypes : EngineError(e)
  \/ \E o \in oldEvents : OldInstanceError(o)
  \/ \E o \in oldEvents : OldInstanceEnd(o)
  \/ RenderEffects
  \/ \E t \in delayedTimers : DelayedTimerFires(t)
  \/ \E ok \in BOOLEAN : RestartTimerFires(ok)
  \/ Watchdog
  \/ PreventiveRestart
  \/ \E rs \in ResultListsC : OnResult(rs)
  \/ HandleStartRecording
  \/ AppendEffect

SpecR == InitR /\ [][NextR]_vars

\* The local-engine hooks with changes of the language
InitL ==
  /\ Constructed
  /\ variant \in Local
  /\ eventsLeft = 0
  /\ errorsLeft = 0
  /\ opsLeft = MaxControlOps
  /\ ticksLeft = MaxTicksC

NextL ==
  \/ Tick
  \/ EngineStart
  \/ EngineEnd
  \/ \E o \in oldEvents : OldInstanceEnd(o)
  \/ RenderEffects
  \/ LanguageEffect
  \/ \E t \in delayedTimers : DelayedTimerFires(t)
  \/ RestartTimerFires(TRUE)
  \/ Watchdog
  \/ HandleStartRecording
  \/ HandleStopRecording
  \/ \E l \in Languages : ChangeLanguage(l)
  \/ LanguageTimerFires

SpecL == InitL /\ [][NextL]_vars

\* The remote hook from construction to a running audio graph, with the
\* audio frames in focus
InitP ==
  /\ Constructed
  /\ variant = "remote"
  /\ eventsLeft = 0
  /\ errorsLeft = 0
  /\ opsLeft = 1
  /\ ticksLeft = 0

NextP ==
  \/ HandleStartRecording
  \/ TokenResult(TRUE)
  \/ MediaResult(TRUE)
  \/ SocketOpen
  \/ \E buf \in Buffers : OnAudioProcess(buf)

SpecP == InitP /\ [][NextP]_vars

\* The App with its list of notes in focus, on the hook it imports
\* (hooks/useSpeechRecognition) and a healthy engine
InitN ==
  /\ Constructed
  /\ variant = "basic"
  /\ eventsLeft = MaxEventsN
  /\ errorsLeft = 0
  /\ opsLeft = MaxControlOpsN
  /\ ticksLeft = MaxTicksN

\* The final results delivered in that session
ResultListsN == { <<Fin(SpB, 90)>>, <<Fin(HelloWorld, 0)>> }

NextN ==
  \/ Tick
  \/ EngineStart
  \/ EngineEnd
  \/ \E rs \in ResultListsN : OnResult(rs)
  \/ AppendEffect
  \/ HandleStartRecording
  \/ HandleStopRecording
  \/ HandleReset
  \/ HandleNewNote
  \/ \E i \in 1..Len(notes) : SelectNote(i)
  \/ \E i \in 1..Len(notes) : DeleteNote(i)
  \/ \E c \in Contents : EditContent(c)

SpecN == InitN /\ [][NextN]_vars

\* ------------------------------------------------------------------------
\* Properties
\* ------------------------------------------------------------------------
IsSuffix(s, t) == Len(s) =< Len(t) /\ SubSeq(t, Len(t) - Len(s) + 1, Len(t)) = s

\* The texts appended to notes, in order
AppendedTexts == [i \in 1..Len(appended) |-> appended[i][2]]

\* The trimmed non-blank texts joined by single spaces
RECURSIVE JoinTrimmed(_)
JoinTrimmed(texts) ==
  IF texts = <<>> THEN Empty
  ELSE LET h == Trim(Head(texts))
           r == JoinTrimmed(Tail(texts))
       IN IF h = Empty THEN r ELSE IF r = Empty THEN h ELSE h \o Space \o r

\* The committed text a controller keeps: the accumulator of the local-engine
\* hooks, the transcript state of the remote hook
CommittedText == IF variant = "remote" THEN transcript ELSE finalTranscriptRef

\* An upstream event that carries exactly one Final result
IsFinalOp(o) ==
  \/ o.op = "result" /\ Len(o.arg) = 1 /\ o.arg[1].isFinal
  \/ o.op = "message" /\ o.arg.type = "Turn" /\ o.arg.end_of_turn

\* An upstream event that carries exactly one Partial result
IsPartialOp(o) ==
  \/ o.op = "result" /\ Len(o.arg) = 1 /\ ~o.arg[1].isFinal
  \/ o.op = "message" /\ o.arg.type = "Turn" /\ ~o.arg.end_of_turn

\* The text of such an event
TextOf(o) == IF o.op = "result" THEN o.arg[1].transcript ELSE o.arg.transcript

ResetOps == {"handleReset", "handleStartRecording"}

\* C1: while a note is current, the trimmed text of every Final event of a
\* local-engine hook is appended to the note exactly once and in arrival
\* order: once the App effect has nothing left to do, the texts appended
\* are the texts published, one for one.
C1_EveryFinalAppendedOnce ==
  (variant \in Local /\ ~SegmentPending) => AppendedTexts = finalsForNote

\* C2: the exposed transcript of the basic and of the robust hook is the
\* trimmed texts of the Final results since the last reset, joined in order
\* by exactly one space.
C2_TranscriptIsJoinOfFinals ==
  variant \in {"basic", "robust"} => transcript = JoinTrimmed(finalsSinceReset)

\* C3: in the robust and the remote hook a Final event with text t appends
\* trim(t) and one space to the committed text, publishes trim(t) as the
\* latest segment and leaves the interim text empty.
C3_FinalAppendsAndPublishes ==
  [][ (variant \in {"robust", "remote"} /\ IsFinalOp(lastOp'))
        => /\ CommittedText' = CommittedText \o Trim(TextOf(lastOp')) \o Space
           /\ latestFinalSegment' = Trim(TextOf(lastOp'))
           /\ interimTranscript' = Empty ]_vars

\* C4: in the local-engine hooks every step other than a reset extends the
\* exposed transcript and the accumulator: the old value is a prefix of the
\* new one.
C4_TranscriptNeverShrinks ==
  [][ (variant \in Local /\ lastOp'.op \notin ResetOps)
        => /\ IsPrefix(transcript, transcript')
           /\ IsPrefix(finalTranscriptRef, finalTranscriptRef') ]_vars

\* C4 witness: a force-flushed interim text and a later Final result have
\* both extended the transcript
C4_GrownTwice ==
  /\ variant = "autopush"
  /\ Len(emitted) = 2
  /\ emitted[1].kind = "flush"
  /\ emitted[2].kind = "final"
  /\ IsPrefix(P210, transcript)
  /\ Len(transcript) > Len(P210)

C6_ForceFlushByLength ==
  (/\ variant \in {"autopush", "robust"}
   /\ autoPushCallbackRef
   /\ isListening
   /\ \/ lastOp.op = "result" /\ lastOp.arg = <<Par(P210)>> /\ ~PushPending
      \/ lastOp.op = "flush" /\ lastOp.arg = P210)
    => /\ interimTranscript = Empty
       /\ pushed # <<>>
       /\ pushed[Len(pushed)] = P210
       /\ IsSuffix(P210, transcript)

\* C7: once an event has been handled by the auto-push hook while listening
\* (and the auto-push effect has run), no interim text longer than 50
\* characters is left whose last flush is more than 10 seconds old.
C7_ForceFlushByTimeout ==
  (/\ variant = "autopush"
   /\ autoPushCallbackRef
   /\ isListening
   /\ ~PushPending
   /\ lastOp.op = "result")
    => ~(Len(interimTranscript) > LowWatermark /\ now - lastPushTimeRef > PushTimeoutMs)

\* C8: text that was force-flushed is not committed or pushed again: no
\* later segment of the same utterance contains a flushed text.
C8_NoSecondEmission ==
  \A i, j \in 1..Len(emitted) :
    (i < j /\ emitted[i].kind = "flush" /\ emitted[i].utt = emitted[j].utt)
      => ~IsPrefix(emitted[i].text, emitted[j].text)

\* C9: after a reset the transcript, the accumulator, the interim text and
\* the latest segment (of the local-engine hooks) are empty and the flush
\* timestamp has its initial value (the time of construction; the time of
\* the reset is accepted as well).
C9_ResetClearsAll ==
  lastOp.op \in ResetOps
    => /\ transcript = Empty
       /\ interimTranscript = Empty
       /\ (variant \in Local => (finalTranscriptRef = Empty /\ latestFinalSegment = Empty))
       /\ lastPushTimeRef \in {0, now}

\* C10: resetTranscript leaves the connection state as it is: isListening,
\* the error, the engine instance and the socket, the pending restart
\* timers, the consecutive-failure counter and the backoff delay.
C10_ResetKeepsConnection ==
  [][ lastOp'.op = "handleReset" => UNCHANGED connvars ]_vars

\* C10 witness: a reset was made while listening, after a failure was
\* counted and with a restart timer pending
C10_ResetWhileRetrying ==
  /\ lastOp.op = "handleReset"
  /\ variant = "robust"
  /\ isListening
  /\ consecutiveErrorsRef > 0
  /\ delayedTimers # {}


\* ------------------------------------------------------------------------
\* Fatal errors
\* ------------------------------------------------------------------------
PermissionErrors == {"not-allowed", "audio-capture"}
PermissionMessages == PermissionErrors \cup
  {"Microphone permission denied", "Microphone access denied or unavailable"}
ServiceErrors == {"service-not-allowed", "language-not-supported"}
ServiceMessages == {"Speech recognition service not allowed", "Language not supported"}

\* C11: a not-allowed or audio-capture error is fatal: right after it
\* isListening is false and an error is shown, and as long as that error is
\* shown (start() clears it) the hook does not listen and no engine instance
\* is started.
C11_PermissionErrorIsFatal ==
  /\ ((lastOp.op = "error" /\ lastOp.arg \in PermissionErrors)
        => (~isListening /\ error # NoError))
  /\ (error \in PermissionMessages => (~isListening /\ running \notin Started))

\* C12: a service-not-allowed or language-not-supported error of the robust
\* hook is fatal: right after it isListening is false and an error is shown,
\* and as long as that error is shown no engine instance is started, the
\* end event that follows the error included.
C12_ServiceErrorIsFatal ==
  variant = "robust" =>
    /\ ((lastOp.op = "error" /\ lastOp.arg \in ServiceErrors)
          => (~isListening /\ error # NoError))
    /\ (error \in ServiceMessages => (~isListening /\ running \notin Started))


\* ------------------------------------------------------------------------
\* Retries of the robust hook
\* ------------------------------------------------------------------------

\* The operation o is a transient failure: a network or generic upstream
\* error, or a restart whose start() threw
TransientFailure(o) ==
  \/ o.op = "error" /\ o.arg \in {"network", "aborted"}
  \/ o.op = "old-error"
  \/ o.op = "restart" /\ o.arg = FALSE

\* The isListening value seen by the code that handled the failure o: the
\* one captured by the handlers of the failed instance (r for the current
\* instance); the restart timer only runs with the value true
SawListening(o, r) ==
  IF o.op = "old-error" THEN o.arg.L ELSE IF o.op = "error" THEN r ELSE TRUE

\* A retry is on its way: a timer that calls restartRecognition, or the
\* restart timer itself, is pending
RetryPending == delayedTimers # {} \/ restartTimeoutRef # NoTimer

GiveUpMessages == {"Speech recognition failed after multiple attempts",
                   "Network error - check your connection", "Speech recognition error"}

\* The controller has given up: not listening, with the error of a
\* transient failure shown
GaveUp == ~isListening /\ error \in GiveUpMessages

\* C13: while listening, each of the first five consecutive transient
\* failures (handled by code that saw the hook listening) leaves the hook
\* listening with a retry on its way; the sixth makes it give up
\* (isListening false, error set); once it has given up no engine instance
\* is started.
C13_RetryBound ==
  [][ /\ ((isListening /\ TransientFailure(lastOp') /\ SawListening(lastOp', recL))
            => IF consecutiveErrorsRef' =< maxConsecutiveErrors
                 THEN isListening' /\ RetryPending'
                 ELSE ~isListening' /\ error' # NoError)
      /\ ((GaveUp /\ GaveUp') => running' \notin Started) ]_vars


\* The delay of the retry after the k-th consecutive failure: 1 s, 2 s, 4 s,
\* 8 s, then 10 s
BackoffDelay(k) == Min(InitialRestartDelay * 2^(k - 1), MaxRestartDelay)

\* The delays after which the pending retries start a new engine instance:
\* the restart timer's own, and for a timer that is yet to call
\* restartRecognition its delay plus the one restartRecognition will add
RetryDelays ==
  (IF restartTimeoutRef # NoTimer THEN {restartTimeoutRef.delay} ELSE {})
    \cup { t.delay + Min(restartDelayRef, MaxRestartDelay) : t \in delayedTimers }

\* C14: after the k-th consecutive transient failure below the bound the
\* hook, still listening, has a retry scheduled, and its delay is the k-th
\* of 1 s, 2 s, 4 s, 8 s, 10 s.
C14_BackoffGrowth ==
  [][ (isListening /\ isListening' /\ TransientFailure(lastOp')
       /\ consecutiveErrorsRef' < maxConsecutiveErrors)
        => BackoffDelay(consecutiveErrorsRef') \in RetryDelays' ]_vars


\* The step is a successful (re)connect of the robust hook: the restart
\* timer started a new instance, the engine reported the start of the
\* current one, or startListening was called while not listening and
\* start() returned
SuccessfulConnect ==
  /\ variant = "robust"
  /\ \/ lastOp'.op = "restart" /\ lastOp'.arg = TRUE
     \/ lastOp'.op = "onstart"
     \/ /\ lastOp'.op \in {"handleStartRecording", "handleResumeRecording"}
        /\ ~isListening
        /\ isListening'

\* C15: after every successful (re)connect the consecutive-failure counter
\* is 0 and the backoff delay is 1 s.
C15_ResetOnSuccess ==
  [][ SuccessfulConnect
        => (consecutiveErrorsRef' = 0 /\ restartDelayRef' = InitialRestartDelay) ]_vars

\* C15 witness: a restart succeeded after an upstream failure, and the
\* counter and the delay have their initial values
C15_RestartedAfterFailure ==
  /\ variant = "robust"
  /\ lastOp.op = "restart"
  /\ lastOp.arg = TRUE
  /\ errorsLeft < MaxErrorEvents
  /\ running = "starting"
  /\ consecutiveErrorsRef = 0
  /\ restartDelayRef = InitialRestartDelay


\* The messages onerror shows for a single network or generic error
RawErrorMessages == {"Network error - check your connection", "Speech recognition error"}

\* C16: when the hook stops listening because a transient failure has used
\* up the retry budget, the error it shows is not the message of a single
\* upstream error.
C16_GiveUpMessage ==
  [][ (isListening /\ ~isListening' /\ TransientFailure(lastOp')
       /\ SawListening(lastOp', recL)
       /\ consecutiveErrorsRef' >= maxConsecutiveErrors)
        => error' \notin RawErrorMessages ]_vars


Stale == now - lastResultTimeRef > StaleIntervalMs

\* C18: the stall monitor forces a restart only while the hook listens, the
\* last recognition event is more than 30 s old and no restart is under
\* way, and then it does begin one (the instance is aborted, the restart
\* timer armed) without leaving the listening state; and whenever those
\* conditions hold the monitor's check can fire.
C18_WatchdogWhenStale ==
  /\ [][ lastOp'.op = "watchdog"
           => (isListening /\ Stale /\ ~isRestartingRef
               /\ isListening' /\ isRestartingRef' /\ restartTimeoutRef' # NoTimer
               /\ running' \notin Started) ]_vars
  /\ []((variant = "robust" /\ Settled /\ isListening /\ Stale /\ ~isRestartingRef)
          => ENABLED Watchdog)

\* C18 witness: the monitor forced a restart of a session that had received
\* a recognition event before it went silent
C18_RestartForced ==
  /\ lastOp.op = "watchdog"
  /\ isListening
  /\ lastResultTimeRef > 0
  /\ Stale
  /\ isRestartingRef
  /\ restartTimeoutRef # NoTimer


\* C19: the 4-minute interval, when no restart is under way, begins one
\* while the hook listens: the instance is aborted and the restart timer
\* armed.  When the restart timer then starts the new instance the hook is
\* still listening, and while a restart is under way isListening becomes
\* false only through a failure that ends the session (the budget is used
\* up, or the failure is handled by code that did not see the hook
\* listening).
C19_SeamlessRotation ==
  [][ variant = "robust" =>
      /\ ((lastOp'.op = "rotation" /\ lastOp'.arg)
            => (isListening /\ isListening' /\ isRestartingRef'
                /\ restartTimeoutRef' # NoTimer /\ running' \notin Started))
      /\ ((isListening /\ lastOp'.op = "restart" /\ lastOp'.arg)
            => (isListening' /\ running' = "starting" /\ ~isRestartingRef'))
      /\ ((isListening /\ isRestartingRef /\ ~isListening')
            => (TransientFailure(lastOp')
                /\ (consecutiveErrorsRef' >= maxConsecutiveErrors
                    \/ ~SawListening(lastOp', recL)))) ]_vars

\* C19 witness: the 4-minute interval began the restart of a running
\* instance, and the hook listens
C19_RotationBegun ==
  /\ lastOp.op = "rotation"
  /\ lastOp.arg
  /\ running = "aborted"
  /\ isListening
  /\ isRestartingRef
  /\ restartTimeoutRef # NoTimer


\* ------------------------------------------------------------------------
\* Stopping
\* ------------------------------------------------------------------------

\* Nothing is held: the hook does not listen, no engine instance is started,
\* no socket is connecting or open and no microphone stream is live
Released ==
  /\ ~isListening
  /\ running \notin Started
  /\ sock \notin {"connecting", "open"}
  /\ ~mic

\* C20: once the recording is stopped or paused (stopListening was the last
\* call made to the hook) the hook does not listen and holds no microphone
\* stream, socket or started engine instance, whatever was under way when it
\* was stopped.
C20_StopReleasesAll == (~isRecording \/ isPaused) => Released

\* The controls that stop the session: Stop and Pause
StopOps == {"handleStopRecording", "handlePauseRecording"}

\* The session is stopped: no recording, or a paused one
Stopped == ~isRecording \/ isPaused

\* C21: in the robust hook a stop made while a retry is pending (a backoff
\* timer of restartRecognition or a delayed timer of onerror / onend)
\* leaves isListening false and no retry pending, and while the session
\* stays stopped no step starts an engine instance.
C21_StopCancelsRetry ==
  [][ /\ ((variant = "robust" /\ lastOp'.op \in StopOps /\ RetryPending)
            => (~isListening' /\ ~RetryPending'))
      /\ ((variant = "robust" /\ Stopped /\ Stopped' /\ running \notin Started)
            => (running' \notin Started)) ]_vars


\* The controls that call stopListening or startListening and nothing else
\* of the hook
TransportOps == StopOps \cup {"handleResumeRecording"}

UpstreamRunning == IF variant = "remote" THEN sock = "open" ELSE running = "yes"

\* The events that report a started upstream: onstart and onopen
StartedOps == {"onstart", "open"}

\* C23: when the upstream reports that it has started, the error is null
\* from then on: no error is shown at the start event, and as long as the
\* hook keeps listening with this upstream running no error appears.
C23_ErrorClearedOnStart ==
  [][ /\ ((lastOp'.op \in StartedOps) => (error' = NoError))
      /\ ((isListening /\ UpstreamRunning /\ error = NoError /\ isListening' /\ UpstreamRunning')
            => (error' = NoError)) ]_vars


\* The error types onerror of the robust hook treats as fatal at once
FatalErrorTypes == PermissionErrors \cup ServiceErrors

\* The error type an onerror step reported
ErrorOf(o) == IF o.op = "error" THEN o.arg ELSE "aborted"

\* The error steps of the robust hook: onerror of the current or of a
\* replaced instance
ErrorOps == {"error", "old-error"}

\* C24: a fatal error (a permission or service error of the robust hook, a
\* socket error of the remote hook) leaves isListening false and an error
\* message set; a transient error of the robust hook (no-speech, network or
\* generic, with the failure count below the bound) leaves isListening as
\* it was.
C24_FatalStopsTransientKeeps ==
  [][ /\ ((variant = "robust" /\ lastOp'.op = "error" /\ lastOp'.arg \in FatalErrorTypes)
            => (~isListening' /\ error' # NoError))
      /\ ((variant = "remote" /\ lastOp'.op = "socket-error")
            => (~isListening' /\ error' # NoError))
      /\ ((variant = "robust" /\ lastOp'.op \in ErrorOps
             /\ ErrorOf(lastOp') \notin FatalErrorTypes
             /\ consecutiveErrorsRef' < maxConsecutiveErrors)
            => (isListening' = isListening)) ]_vars


\* ------------------------------------------------------------------------
\* Starting the remote hook
\* ------------------------------------------------------------------------

\* The calls of startListening
StartCallOps == {"handleStartRecording", "handleResumeRecording"}

TokenFailedMessage == "Failed to connect to speech service."

\* C25: when the token fetch of the remote hook fails, that start() ends
\* there: the error message is set, isListening is not touched, no socket is
\* created and no microphone acquired, and nothing resumes the start: a
\* start gets under way only when startListening is called.
C25_TokenFailureEndsStart ==
  [][ /\ ((lastOp'.op = "token" /\ ~lastOp'.arg)
            => (/\ error' = TokenFailedMessage
                /\ startPc' = "idle"
                /\ UNCHANGED <<isListening, sock, staleSocks, mic>>))
      /\ ((variant = "remote" /\ startPc = "idle" /\ startPc' # "idle")
            => (lastOp'.op \in StartCallOps)) ]_vars

\* The token fetch of the first start failed: nothing is connected
C25_TokenFailed ==
  /\ lastOp.op = "token"
  /\ ~lastOp.arg
  /\ isRecording
  /\ ~isListening
  /\ sock = "none"
  /\ ~mic
  /\ error = TokenFailedMessage


MediaFailedMessage == "Failed to start transcription."

\* The socket states in which the connection is live
LiveSocket == {"connecting", "open"}

\* C26: when getUserMedia fails during start(), the remote hook ends with
\* the error set and isListening false, the socket this start created is
\* closed, and as long as that error is shown no event sets isListening
\* back to true.
C26_CaptureFailureIsFinal ==
  [][ /\ ((lastOp'.op = "media" /\ ~lastOp'.arg)
            => (~isListening' /\ error' = MediaFailedMessage /\ sock' \notin LiveSocket))
      /\ ((error = MediaFailedMessage /\ ~isListening) => (~isListening')) ]_vars


\* C27: whenever the remote hook is not listening and no start() is under
\* way (no token or microphone request outstanding, no socket connecting),
\* that is after a stop, after the socket closed or after a socket error,
\* the microphone stream and audio graph are stopped and no socket is open.
C27_ReleasedWhenIdle ==
  (variant = "remote" /\ ~isListening /\ startPc = "idle" /\ sock # "connecting")
    => (~mic /\ sock # "open")


\* ------------------------------------------------------------------------
\* The transcript of the remote hook
\* ------------------------------------------------------------------------

\* The message is an end-of-turn message with text
IsEndOfTurn(m) == m.type = "Turn" /\ m.end_of_turn /\ m.transcript # Empty

\* C28: in the remote hook an end-of-turn message appends its text to the
\* committed transcript: the transcript before the message is a prefix of
\* the transcript after it, which ends with the text of the message and is
\* longer by at least that text.
C28_RemoteTranscriptAppendOnly ==
  [][ (variant = "remote" /\ lastOp'.op = "message" /\ IsEndOfTurn(lastOp'.arg))
        => (/\ IsPrefix(transcript, transcript')
            /\ IsSuffix(lastOp'.arg.transcript, transcript')
            /\ Len(transcript') >= Len(transcript) + Len(lastOp'.arg.transcript)) ]_vars


\* ------------------------------------------------------------------------
\* One upstream at a time
\* ------------------------------------------------------------------------

\* C29: a new upstream is created only when the previous one is not live:
\* the restart timer of the robust hook starts its new instance when the
\* instance it replaces is not started (it was aborted), no replaced
\* instance is left started, and the remote hook creates a socket only
\* when socketRef holds no connecting or open one.
C29_OneLiveUpstream ==
  [][ /\ ((lastOp'.op = "restart" /\ lastOp'.arg) => (running \notin Started))
      /\ (\A o \in oldEvents' : o.st \notin Started)
      /\ ((lastOp'.op = "token" /\ lastOp'.arg) => (sock \notin LiveSocket)) ]_vars


\* ------------------------------------------------------------------------
\* Recovery of the robust hook
\* ------------------------------------------------------------------------

\* The robust hook is listening in a settled render with no engine
\* instance started or ending and no event of a replaced instance due
Halted ==
  /\ variant = "robust"
  /\ isListening
  /\ initL
  /\ running = "no"
  /\ oldEvents = {}

\* C30: when the robust hook is listening and its upstream has ended, a
\* restart is on its way: a timer of onerror, onend or restartRecognition
\* is pending, or the stall monitor and the 4-minute interval are free to
\* begin one (no restart is marked as under way).  Otherwise nothing but
\* the caller would ever start an upstream or end the listening state.
C30_RestartOnItsWay == Halted => (RetryPending \/ ~isRestartingRef)


\* C31: when start() throws in the restart timer and the failure count is
\* still below the bound, the robust hook has the next attempt scheduled
\* when the timer callback returns: the restart timer is armed again, with
\* the doubled delay (capped).
C31_FailedRestartRetries ==
  [][ (lastOp'.op = "restart" /\ ~lastOp'.arg
         /\ consecutiveErrorsRef' < maxConsecutiveErrors)
        => (/\ restartTimeoutRef' # NoTimer
            /\ restartTimeoutRef'.delay = Min(restartDelayRef', MaxRestartDelay)
            /\ restartDelayRef' = 2 * restartDelayRef) ]_vars


\* ------------------------------------------------------------------------
\* Audio frames
\* ------------------------------------------------------------------------

\* C32: every converted sample lies in the 16-bit range, inputs at or below
\* -1 give -32768, 0 gives 0, inputs at or above 1 give 32767, a negative
\* input is scaled by 32768 and any other by 32767 (-0.5 gives -16384 and
\* 0.5 gives 16383), and the conversion keeps the order of the samples.
C32_PcmRange ==
  /\ (Len(pcmOut) = Len(pcmIn))
  /\ (\A i \in 1..Len(pcmIn) :
        /\ pcmOut[i] \in -32768..32767
        /\ (pcmIn[i] =< -SampleUnit => pcmOut[i] = -32768)
        /\ (pcmIn[i] = 0 => pcmOut[i] = 0)
        /\ (pcmIn[i] >= SampleUnit => pcmOut[i] = 32767)
        /\ (2 * pcmIn[i] = -SampleUnit => pcmOut[i] = -16384)
        /\ (2 * pcmIn[i] = SampleUnit => pcmOut[i] = 16383))
  /\ (\A i, j \in 1..Len(pcmIn) : pcmIn[i] =< pcmIn[j] => pcmOut[i] =< pcmOut[j])

\* A buffer with a sample below -1 and a sample above 1 was converted
C32_OutOfRangeConverted ==
  /\ Len(pcmOut) = 2
  /\ pcmIn[1] < -SampleUnit
  /\ pcmIn[2] > SampleUnit
  /\ lastOp.op = "audio"


\* ------------------------------------------------------------------------
\* Changing the language
\* ------------------------------------------------------------------------

\* C33: changeLanguage keeps the listening state.  Called while the hook
\* is not listening, it leaves isListening false, and so does its timer;
\* called while the hook is listening, the hook is listening again when
\* the timer of changeLanguage has fired, with an engine instance started
\* for the language now selected.
C33_LanguageChangeKeepsListening ==
  [][ /\ ((lastOp'.op = "changeLanguage" /\ ~lastOp'.arg) => (~isListening'))
      /\ ((lastOp'.op = "language-timer" /\ ~lastOp'.arg) => (isListening' = isListening))
      /\ ((lastOp'.op = "language-timer" /\ lastOp'.arg)
            => (isListening' /\ running' \in Started /\ recLang' = language')) ]_vars

\* C34: a committed segment goes only to the note that was current when it
\* was finalized: a step that makes another note (or a first note) current,
\* by selecting, creating or deleting, never leaves the App effect with a
\* segment to append, because every segment produced before that step has
\* been appended or was produced while no note was current.
C34_SegmentStaysWithItsNote ==
  [][(currentNote'.id # currentNote.id) => (~SegmentPending')]_vars

\* C35: after a reset or the start of a new recording, the first Final
\* result with text is delivered to the current note whatever its text,
\* also when it equals the last segment delivered before the reset: the
\* result leaves the App effect with that segment to append.
C35_FirstFinalAfterResetDelivered ==
  [][((lastOp'.op = "result") /\ (variant \in Local) /\ (finalsSinceReset = <<>>)
      /\ (currentNote # NoNote) /\ (latestFinalSegment' # Empty))
     => SegmentPending']_vars

\* C36: the note that receives the transcript is marked as recording, with
\* a start time, by the start of a recording, also when the start created
\* the note; stopping clears the mark and adds the elapsed whole seconds of
\* the recording to the note's duration.
C36_RecordingMarkFollowsControls ==
  [][ ((lastOp'.op = "handleStartRecording")
         => (currentNote'.isRecording /\ currentNote'.startTime = <<now>>))
      /\ ((lastOp'.op = "handleStopRecording" /\ currentNote # NoNote)
         => ((~currentNote'.isRecording)
             /\ (currentNote'.duration
                  = currentNote.duration + ((now - recordingStartTime[1]) \div 1000)))) ]_vars

\* C37: for every note of the list, after any sequence of createNote,
\* updateNote, appendToNote and resets, wordCount is the number of
\* whitespace-separated non-empty words of content.
C37_WordCountMatchesContent ==
  \A i \in 1..Len(notes) : notes[i].wordCount = WordCount(notes[i].content)

\* C38: whenever a note is current, the list of notes holds a note with the
\* same id and the same field values: creating, updating, appending and
\* deleting keep currentNote in step with the list, and the deletion of the
\* current note leaves no note current.
C38_CurrentNoteInList ==
  (currentNote # NoNote) => (\E i \in 1..Len(notes) : notes[i] = currentNote)

\* A note selected from a list of two has received a segment, after the
\* other note was current
C38_SelectedNoteAppended ==
  /\ lastOp.op = "append-effect"
  /\ Len(notes) = 2
  /\ currentNote = notes[2]
  /\ currentNote.wordCount > 0

\* C39: the restart-in-progress flag of the robust hook is set only while
\* a restart timer is pending: in every reachable state where the flag is
\* set, the scheduled restart that will clear it exists.
C39_FlagOnlyWithTimer ==
  (variant = "robust" /\ isRestartingRef) => (restartTimeoutRef # NoTimer)

============================================================================
